---- MODULE Spec2Model ----
(***************************************************************************)
(* A model of t-result (src/src/main.ts): the Ok/Err records built by      *)
(* ok() and err(), their method tables, and the error normaliser           *)
(* unknownToError().  JavaScript objects live on a heap so that "the same  *)
(* reference" and "an equal copy" are different things.                    *)
(***************************************************************************)
EXTENDS Integers, Sequences, FiniteSets, TLC

VARIABLES heap, last, promises

vars == <<heap, last, promises>>

(***************************************************************************)
(* Bounds of the model.                                                    *)
(***************************************************************************)
\* how many objects the library may allocate on top of the caller's own
MaxAlloc == 2

\* how many deferred values there may be, the caller's and the library's
MaxPromises == 2

\* how many intermediate Results of one method chain there may be on top
MaxChain == 1

(***************************************************************************)
(* JavaScript values.  Every type has its own payload field, so two values *)
(* of different types are unequal records.                                 *)
(***************************************************************************)
Undef == [t |-> "undefined"]

Null == [t |-> "null"]

Num(n) == [t |-> "number", n |-> n]

Str(s) == [t |-> "string", s |-> s]

Bool(b) == [t |-> "boolean", b |-> b]

Fn(f) == [t |-> "function", f |-> f]

Ref(a) == [t |-> "object", a |-> a]

\* a deferred value (a Promise), by its index in promises
PRef(p) == [t |-> "promise", p |-> p]

\* a function of no arguments that returns v or throws v
Thunk(does, v) == [t |-> "function", f |-> does, v |-> v]

\* what the engine throws when a missing member is called
TypeErrorV == [t |-> "TypeError"]

IsRef(v) == v.t = "object"

(***************************************************************************)
(* Heap objects.                                                           *)
(***************************************************************************)
ErrorObj(message, hasCause, cause) ==
    [k |-> "Error", message |-> message, hasCause |-> hasCause, cause |-> cause]

PlainObj(keys, vals) == [k |-> "Object", keys |-> keys, vals |-> vals]

ArrayObj(items) == [k |-> "Array", items |-> items]

\* error instanceof Error
IsError(h, v) == IsRef(v) /\ h[v.a].k = "Error"

\* isObject of @ls-stack/utils/assertions: a non-null, non-array object
isObject(h, v) == IsRef(v) /\ h[v.a].k # "Array"

(***************************************************************************)
(* The caller's own objects, present before the library is used.           *)
(***************************************************************************)
AddrErr1 == 1

AddrObjMsg == 2

AddrObjEmptyMsg == 3

AddrObjNumMsg == 4

AddrObjCyclic == 5

AddrArr == 6

\* look-alikes of a Result: { ok: true, value: 1 }, { ok: false, error }, and
\* objects that carry the eight methods isResult asks for
AddrTagged == 7

AddrTaggedErr == 8

AddrDuck == 9

AddrDuckNoError == 10

AddrDuckOkString == 11

AddrDuckOnErrNumber == 12

\* the members isResult asks for (main.ts 538-545)
DuckKeys ==
    <<"unwrapOrNull", "unwrapOr", "unwrap", "mapOk", "mapErr", "mapOkAndErr",
      "onOk", "onErr">>

DuckVals == [i \in 1..Len(DuckKeys) |-> Fn("member")]

UserHeap ==
    << ErrorObj("Cannot divide by zero", FALSE, Undef),
       PlainObj(<<"message", "x">>, <<Str("m"), Num(1)>>),
       PlainObj(<<"message">>, <<Str("")>>),
       PlainObj(<<"message">>, <<Num(42)>>),
       PlainObj(<<"self">>, <<Ref(AddrObjCyclic)>>),
       ArrayObj(<<Str("a")>>),
       PlainObj(<<"ok", "value">>, <<Bool(TRUE), Num(1)>>),
       PlainObj(<<"ok", "error">>, <<Bool(FALSE), Ref(AddrErr1)>>),
       PlainObj(<<"ok", "error">> \o DuckKeys, <<Bool(TRUE), Bool(FALSE)>> \o DuckVals),
       PlainObj(<<"ok">> \o DuckKeys, <<Bool(TRUE)>> \o DuckVals),
       PlainObj(<<"ok", "error">> \o DuckKeys, <<Str("yes"), Bool(FALSE)>> \o DuckVals),
       PlainObj(<<"ok", "error">> \o DuckKeys,
                <<Bool(TRUE), Bool(FALSE)>> \o [DuckVals EXCEPT ![8] = Num(1)]) >>

Prims == {Undef, Null, Num(42), Str("boom"), Bool(TRUE), Bool(FALSE)}

Refs(h) == {Ref(a) : a \in 1..Len(h)}

Values(h) == Prims \cup Refs(h)

\* ResultValidErrors: Error | Record<string, unknown> | unknown[] | true
ResultValidErrors(h) ==
    {Bool(TRUE)} \cup {v \in Refs(h) : h[v.a].k \in {"Error", "Object", "Array"}}

(***************************************************************************)
(* The outcome of a call: the heap after it, whether it returned or threw, *)
(* the value returned or thrown, and the callbacks it invoked, in order.   *)
(***************************************************************************)
Out(h, kind, val, calls) == [heap |-> h, kind |-> kind, val |-> val, calls |-> calls]

Return(h, val) == Out(h, "return", val, <<>>)

Throw(h, val) == Out(h, "throw", val, <<>>)

\* allocation of a new object: its reference is the next free address
New(h, obj) == Return(Append(h, obj), Ref(Len(h) + 1))

(***************************************************************************)
(* Property access on heap objects.  A Result record carries its data      *)
(* fields and a method table; an Error's message and cause are own but     *)
(* non-enumerable properties.                                              *)
(***************************************************************************)
\* the enumerable, non-function own properties, in insertion order
PropKeys(o) ==
    CASE o.k = "Object" -> o.keys
      [] o.k = "Result" -> IF o.ok THEN <<"ok", "error", "value">> ELSE <<"ok", "error">>
      [] OTHER -> <<>>

PropVals(o) ==
    CASE o.k = "Object" -> o.vals
      [] o.k = "Result" ->
           IF o.ok THEN <<Bool(o.ok), o.error, o.value>> ELSE <<Bool(o.ok), o.error>>
      [] OTHER -> <<>>

\* 'message' in error
HasMessage(o) ==
    \/ o.k = "Error"
    \/ o.k = "Object" /\ \E i \in 1..Len(o.keys) : o.keys[i] = "message"

\* error.message
GetMessage(o) ==
    IF o.k = "Error" THEN Str(o.message)
    ELSE o.vals[CHOOSE i \in 1..Len(o.keys) : o.keys[i] = "message"]

\* JavaScript truthiness
Truthy(v) ==
    CASE v.t = "undefined" -> FALSE
      [] v.t = "null" -> FALSE
      [] v.t = "boolean" -> v.b
      [] v.t = "number" -> v.n # 0
      [] v.t = "string" -> v.s # ""
      [] OTHER -> TRUE

(***************************************************************************)
(* JSON.stringify, as far as the values of the model go: undefined and     *)
(* functions have no JSON text, an object reached again while it is being  *)
(* written is a cycle and throws.                                          *)
(***************************************************************************)
Json(s) == [st |-> "text", s |-> s]

JsonNone == [st |-> "undefined", s |-> ""]

JsonThrow == [st |-> "throw", s |-> ""]

RECURSIVE JsonValue(_, _, _), JsonItems(_, _, _, _), JsonProps(_, _, _, _, _, _)

JsonValue(h, v, seen) ==
    CASE v.t = "null" -> Json("null")
      [] v.t = "number" -> Json(ToString(v.n))
      [] v.t = "boolean" -> Json(IF v.b THEN "true" ELSE "false")
      [] v.t = "string" -> Json("\"" \o v.s \o "\"")
      [] v.t = "object" ->
           IF v.a \in seen THEN JsonThrow
           ELSE LET o == h[v.a]
                    inner == IF o.k = "Array"
                             THEN JsonItems(h, o.items, seen \cup {v.a}, 1)
                             ELSE JsonProps(h, PropKeys(o), PropVals(o),
                                            seen \cup {v.a}, 1, TRUE)
                IN  IF inner.st = "throw" THEN JsonThrow
                    ELSE IF o.k = "Array" THEN Json("[" \o inner.s \o "]")
                    ELSE Json("{" \o inner.s \o "}")
      [] OTHER -> JsonNone

\* the elements of an array from index i on; an element without JSON text is null
JsonItems(h, items, seen, i) ==
    IF i > Len(items) THEN Json("")
    ELSE LET head == JsonValue(h, items[i], seen)
             rest == JsonItems(h, items, seen, i + 1)
         IN  IF head.st = "throw" \/ rest.st = "throw" THEN JsonThrow
             ELSE Json((IF head.st = "undefined" THEN "null" ELSE head.s)
                       \o (IF i < Len(items) THEN "," ELSE "") \o rest.s)

\* the members of an object from index i on; a member without JSON text is left out
JsonProps(h, keys, vals, seen, i, first) ==
    IF i > Len(keys) THEN Json("")
    ELSE LET head == JsonValue(h, vals[i], seen)
         IN  IF head.st = "throw" THEN JsonThrow
             ELSE IF head.st = "undefined"
             THEN JsonProps(h, keys, vals, seen, i + 1, first)
             ELSE LET rest == JsonProps(h, keys, vals, seen, i + 1, FALSE)
                  IN  IF rest.st = "throw" THEN JsonThrow
                      ELSE Json((IF first THEN "" ELSE ",") \o "\"" \o keys[i]
                                \o "\":" \o head.s \o rest.s)

\* safeJsonStringify of @ls-stack/utils/safeJson: JSON.stringify in a try/catch,
\* undefined when it throws
safeJsonStringify(h, v) ==
    LET j == JsonValue(h, v, {})
    IN  IF j.st = "text" THEN Str(j.s) ELSE Undef

\* a ?? b
Coalesce(a, b) == IF a.t \in {"undefined", "null"} THEN b ELSE a

(***************************************************************************)
(* unknownToError (main.ts 418-437)                                        *)
(***************************************************************************)
\* the mutant: the error is normalised even when it is an Error already
unknownToError_alwaysWraps(h, error) ==
    New(h, ErrorObj(Coalesce(safeJsonStringify(h, error), Str("unknown")).s, TRUE, error))

\* the mutant: the message field is used whenever it is a string, empty or not
unknownToError_anyString(h, error) ==
    IF IsError(h, error) THEN Return(h, error)
    ELSE IF error.t = "string" THEN New(h, ErrorObj(error.s, FALSE, Undef))
    ELSE IF isObject(h, error)
    THEN New(h, ErrorObj(
             IF HasMessage(h[error.a]) /\ GetMessage(h[error.a]).t = "string"
             THEN GetMessage(h[error.a]).s
             ELSE Coalesce(safeJsonStringify(h, error), Str("unknown")).s,
             TRUE, error))
    ELSE New(h, ErrorObj(Coalesce(safeJsonStringify(h, error), Str("unknown")).s,
                         TRUE, error))

\* the mutant: the fallback for non-objects does not record the cause
unknownToError_noCause(h, error) ==
    IF IsError(h, error) THEN Return(h, error)
    ELSE IF error.t = "string" THEN New(h, ErrorObj(error.s, FALSE, Undef))
    ELSE IF isObject(h, error)
    THEN New(h, ErrorObj(
             IF /\ HasMessage(h[error.a])
                /\ Truthy(GetMessage(h[error.a]))
                /\ GetMessage(h[error.a]).t = "string"
             THEN GetMessage(h[error.a]).s
             ELSE Coalesce(safeJsonStringify(h, error), Str("unknown")).s,
             TRUE, error))
    ELSE New(h, ErrorObj(Coalesce(safeJsonStringify(h, error), Str("unknown")).s,
                         FALSE, Undef))

unknownToError(h, error) ==
    IF IsError(h, error) THEN Return(h, error)
    ELSE IF error.t = "string" THEN New(h, ErrorObj(error.s, FALSE, Undef))
    ELSE IF isObject(h, error)
    THEN New(h, ErrorObj(
             IF /\ HasMessage(h[error.a])
                /\ Truthy(GetMessage(h[error.a]))
                /\ GetMessage(h[error.a]).t = "string"
             THEN GetMessage(h[error.a]).s
             ELSE Coalesce(safeJsonStringify(h, error), Str("unknown")).s,
             TRUE, error))
    ELSE New(h, ErrorObj(Coalesce(safeJsonStringify(h, error), Str("unknown")).s,
                         TRUE, error))

(***************************************************************************)
(* Callbacks handed to the library.  A callback is named; Apply is what it *)
(* returns, and every invocation is logged with its argument.              *)
(***************************************************************************)
\* typeof v
TypeOf(v) == Str(IF v.t \in {"null", "promise"} THEN "object" ELSE v.t)

\* the name of x => g(f(x))
Composed(g, f) == g \o "." \o f

Apply(f, v) ==
    CASE f = "id" -> v
      [] f = "typeOf" -> TypeOf(v)
      [] f = "toArr" -> Ref(AddrArr)
      [] f = Composed("id", "id") -> v
      [] f = Composed("typeOf", "id") -> TypeOf(v)
      [] f = Composed("id", "typeOf") -> TypeOf(v)
      [] f = Composed("typeOf", "typeOf") -> TypeOf(TypeOf(v))
      [] OTHER -> Undef

\* (value) => NewValue
OkFns == {"id", "typeOf"}

\* (error) => NewError, a ResultValidErrors again
ErrFns == {"id", "toArr"}

\* (value) => void
HookFns == {"f", "g"}

Invocation(f, v) == [f |-> f, arg |-> v]

WithCalls(calls, out) == [out EXCEPT !.calls = calls \o @]

(***************************************************************************)
(* The method tables of ok() (main.ts 178-189) and err() (main.ts 206-223, *)
(* 228-230): member name |-> the function it is bound to.                  *)
(***************************************************************************)
OkMethods ==
    [unwrapOrNull |-> "okUnwrapOr", unwrapOr |-> "okUnwrapOr", unwrap |-> "okUnwrapOr",
     mapOk |-> "okMap", mapErr |-> "returnResult", mapOkAndErr |-> "mapOkAndErr",
     ifOk |-> "okOnOk", ifErr |-> "returnResult",
     onOk |-> "okOnOk", onErr |-> "returnResult"]

ErrMethods ==
    [unwrapOrNull |-> "err_unwrapOrNull", unwrapOr |-> "err_unwrapOr",
     unwrap |-> "err_unwrap",
     mapOk |-> "returnResult", mapErr |-> "errMap", mapOkAndErr |-> "mapOkAndErr",
     ifOk |-> "returnResult", onOk |-> "returnResult",
     ifErr |-> "errOnErr", onErr |-> "errOnErr",
     errorResult |-> "err_errorResult"]

(***************************************************************************)
(* ok (main.ts 177-197) and err (main.ts 205-233)                          *)
(***************************************************************************)
\* the mutant: the Ok record is built with the error tag set
ok_errorTrue(h, value) ==
    New(h, [k |-> "Result", ok |-> TRUE, error |-> Bool(TRUE), value |-> value,
            methods |-> OkMethods])

\* the mutant: the Ok record gets the Err's unwrapOr
ok_unwrapOrDefault(h, value) ==
    New(h, [k |-> "Result", ok |-> TRUE, error |-> Bool(FALSE), value |-> value,
            methods |-> [OkMethods EXCEPT !.unwrapOr = "err_unwrapOr"]])

ok(h, value) ==
    New(h, [k |-> "Result", ok |-> TRUE, error |-> Bool(FALSE), value |-> value,
            methods |-> OkMethods])

\* the mutant: the Err record gets the Ok's unwrapOrNull
err_sharedUnwrap(h, error) ==
    New(h, [k |-> "Result", ok |-> FALSE, error |-> error,
            methods |-> [ErrMethods EXCEPT !.unwrapOrNull = "okUnwrapOr"]])

\* the mutant: the Err record's onOk is bound to the Err hook
err_onOkFires(h, error) ==
    New(h, [k |-> "Result", ok |-> FALSE, error |-> error,
            methods |-> [ErrMethods EXCEPT !.onOk = "errOnErr"]])

\* the mutant: the Err record is built without onErr
err_noOnErr(h, error) ==
    New(h, [k |-> "Result", ok |-> FALSE, error |-> error,
            methods |-> [m \in DOMAIN ErrMethods \ {"onErr"} |-> ErrMethods[m]]])

err(h, error) ==
    New(h, [k |-> "Result", ok |-> FALSE, error |-> error, methods |-> ErrMethods])

\* errId (main.ts 308-310): err({ id })
errId(h, id) ==
    LET o == New(h, PlainObj(<<"id">>, <<id>>))
    IN  err(o.heap, o.val)

\* unknownToResultError (main.ts 240-242): err(unknownToError(error))
unknownToResultError(h, error) ==
    LET n == unknownToError(h, error)
    IN  err(n.heap, n.val)

\* the members of the Result namespace object (main.ts 315-331)
ResultMembers ==
    {"ok", "err", "unknownToError", "asyncUnwrap", "asyncMap", "getOkErr", "errId"}

\* Result.member(...args): calling a member the namespace does not have is a
\* TypeError; asyncUnwrap, asyncMap and getOkErr are not called this way here
StaticCall(h, member, args) ==
    IF member \notin ResultMembers THEN Throw(h, TypeErrorV)
    ELSE CASE member = "ok" -> ok(h, args[1])
           [] member = "err" -> err(h, args[1])
           [] member = "errId" -> errId(h, args[1])
           [] member = "unknownToError" -> unknownToResultError(h, args[1])

(***************************************************************************)
(* The method implementations.  this is the receiver's reference.          *)
(***************************************************************************)
\* okUnwrapOr (main.ts 103-105); on a record without a value field the read
\* yields undefined
okUnwrapOr(h, this) ==
    Return(h, IF "value" \in DOMAIN h[this.a] THEN h[this.a].value ELSE Undef)

\* the mutant: the receiver is returned on both branches
okMap_noop(h, this, mapFn) == Return(h, this)

\* the mutant: what mapFn returns is not used
okMap_dropsValue(h, this, mapFn) ==
    IF h[this.a].ok
    THEN WithCalls(<<Invocation(mapFn, h[this.a].value)>>, ok(h, Undef))
    ELSE Return(h, this)

\* the mutant: mapFn is given the Result, not its value
okMap_passesResult(h, this, mapFn) ==
    IF h[this.a].ok
    THEN WithCalls(<<Invocation(mapFn, this)>>, ok(h, Apply(mapFn, this)))
    ELSE Return(h, this)

\* okMap (main.ts 107-112)
okMap(h, this, mapFn) ==
    IF h[this.a].ok
    THEN WithCalls(<<Invocation(mapFn, h[this.a].value)>>,
                   ok(h, Apply(mapFn, h[this.a].value)))
    ELSE Return(h, this)

\* the mutant: the receiver's error is replaced in place
errMap_inPlace(h, this, mapFn) ==
    IF h[this.a].ok
    THEN Return(h, this)
    ELSE Out([h EXCEPT ![this.a].error = Apply(mapFn, h[this.a].error)], "return", this,
             <<Invocation(mapFn, h[this.a].error)>>)

\* errMap (main.ts 114-122)
errMap(h, this, mapFn) ==
    IF h[this.a].ok
    THEN Return(h, this)
    ELSE WithCalls(<<Invocation(mapFn, h[this.a].error)>>,
                   err(h, Apply(mapFn, h[this.a].error)))

\* the mutant: the Err branch keeps the receiver
mapOkAndErr_okOnly(h, this, mapFn, mapErrFn) ==
    IF h[this.a].ok
    THEN WithCalls(<<Invocation(mapFn, h[this.a].value)>>,
                   ok(h, Apply(mapFn, h[this.a].value)))
    ELSE Return(h, this)

\* mapOkAndErr (main.ts 124-140)
mapOkAndErr(h, this, mapFn, mapErrFn) ==
    IF h[this.a].ok
    THEN WithCalls(<<Invocation(mapFn, h[this.a].value)>>,
                   ok(h, Apply(mapFn, h[this.a].value)))
    ELSE WithCalls(<<Invocation(mapErrFn, h[this.a].error)>>,
                   err(h, Apply(mapErrFn, h[this.a].error)))

\* returnResult (main.ts 142-144)
returnResult(h, this) == Return(h, this)

\* the mutant: the callback is put off, the call returns without invoking it
okOnOk_deferred(h, this, fn) == Return(h, this)

\* okOnOk (main.ts 146-154)
okOnOk(h, this, fn) ==
    IF h[this.a].ok
    THEN Out(h, "return", this, <<Invocation(fn, h[this.a].value)>>)
    ELSE Return(h, this)

\* errOnErr (main.ts 156-164)
errOnErr(h, this, fn) ==
    IF ~h[this.a].ok
    THEN Out(h, "return", this, <<Invocation(fn, h[this.a].error)>>)
    ELSE Return(h, this)

\* the mutant: unwrapOrNull throws the payload
err_unwrapOrNull_throws(h, this) == Throw(h, h[this.a].error)

\* err's unwrapOrNull (main.ts 207)
err_unwrapOrNull(h, this) == Return(h, Null)

\* err's unwrapOr (main.ts 208)
err_unwrapOr(h, this, defaultValue) == Return(h, defaultValue)

\* the mutant: every payload is normalised into a new Error before the throw
err_unwrap_alwaysNew(h, this) ==
    LET n == unknownToError_alwaysWraps(h, h[this.a].error)
    IN  Throw(n.heap, n.val)

\* err's unwrap (main.ts 209-215)
err_unwrap(h, this) ==
    IF IsError(h, h[this.a].error)
    THEN Throw(h, h[this.a].error)
    ELSE LET n == unknownToError(h, h[this.a].error)
         IN  Throw(n.heap, n.val)

\* the mutant: errorResult hands back the receiver
err_errorResult_sameInstance(h, this) == Return(h, this)

\* err's errorResult (main.ts 228-230)
err_errorResult(h, this) == err(h, h[this.a].error)

\* result.member(...args): the member is looked up in the record; calling a
\* member the record does not have is a TypeError
Invoke(h, this, member, args) ==
    IF member \notin DOMAIN h[this.a].methods THEN Throw(h, TypeErrorV)
    ELSE LET impl == h[this.a].methods[member]
         IN  CASE impl = "okUnwrapOr" -> okUnwrapOr(h, this)
               [] impl = "okMap" -> okMap(h, this, args[1].f)
               [] impl = "errMap" -> errMap(h, this, args[1].f)
               [] impl = "mapOkAndErr" -> mapOkAndErr(h, this, args[1].f, args[2].f)
               [] impl = "returnResult" -> returnResult(h, this)
               [] impl = "okOnOk" -> okOnOk(h, this, args[1].f)
               [] impl = "errOnErr" -> errOnErr(h, this, args[1].f)
               [] impl = "err_unwrapOrNull" -> err_unwrapOrNull(h, this)
               [] impl = "err_unwrapOr" -> err_unwrapOr(h, this, args[1])
               [] impl = "err_unwrap" -> err_unwrap(h, this)
               [] impl = "err_errorResult" -> err_errorResult(h, this)

(***************************************************************************)
(* typedResult (main.ts 469-475) and getOkErr (main.ts 515-517).  The      *)
(* object is built once, when the module is loaded, and is not one of the  *)
(* objects the calls allocate.                                             *)
(***************************************************************************)
\* the functions ok and err of the module, as values
Constructors == [ok |-> Fn("ok"), err |-> Fn("err")]

\* the reference to the module's typedResult object
TypedResultRef == [t |-> "const", name |-> "typedResult"]

\* its data members: { ok, err }
typedResult == [k |-> "TypedResult", ok |-> Constructors.ok, err |-> Constructors.err]

\* the mutant: the getter yields undefined
typedResult_type_undefined(h) == Return(h, Undef)

\* get _type() (main.ts 472-474): throw new Error('usage as value is not allowed')
typedResult_type(h) ==
    LET e == New(h, ErrorObj("usage as value is not allowed", FALSE, Undef))
    IN  Throw(e.heap, e.val)

\* the mutant: every call builds an object of its own
getOkErr_fresh(h) == New(h, typedResult)

getOkErr(h) == Return(h, TypedResultRef)

\* t[key] for a data member of a typed helper
TypedMember(h, t, key) == IF t = TypedResultRef THEN typedResult[key] ELSE h[t.a][key]

\* fn(...args) for one of the module's constructors
CallFn(h, fn, args) ==
    CASE fn = Constructors.ok -> ok(h, args[1])
      [] fn = Constructors.err -> err(h, args[1])

(***************************************************************************)
(* isResult (main.ts 529-547) and hasMethod (main.ts 549-551)              *)
(***************************************************************************)
\* key in value
HasProp(o, key) ==
    CASE o.k = "Object" -> \E i \in 1..Len(o.keys) : o.keys[i] = key
      [] o.k = "Result" ->
           \/ key \in {"ok", "error"}
           \/ key = "value" /\ o.ok
           \/ key \in DOMAIN o.methods
      [] o.k = "Error" -> key = "message" \/ (key = "cause" /\ o.hasCause)
      [] OTHER -> FALSE

\* value[key], for a key that is in value
GetProp(o, key) ==
    CASE o.k = "Object" -> o.vals[CHOOSE i \in 1..Len(o.keys) : o.keys[i] = key]
      [] o.k = "Result" ->
           IF key = "ok" THEN Bool(o.ok)
           ELSE IF key = "error" THEN o.error
           ELSE IF key = "value" THEN o.value
           ELSE Fn(o.methods[key])
      [] o.k = "Error" -> IF key = "message" THEN Str(o.message) ELSE o.cause

hasMethod(value, method) == HasProp(value, method) /\ GetProp(value, method).t = "function"

\* the mutant: the tags are checked and the methods are not
isResult_tagsOnly(h, value) ==
    /\ value.t = "object"
    /\ HasProp(h[value.a], "ok")
    /\ GetProp(h[value.a], "ok").t = "boolean"
    /\ HasProp(h[value.a], "error")

\* typeof value === 'object' && value !== null: null has its own tag here, and a
\* promise, which has none of the members, has too
isResult(h, value) ==
    /\ value.t = "object"
    /\ HasProp(h[value.a], "ok")
    /\ GetProp(h[value.a], "ok").t = "boolean"
    /\ HasProp(h[value.a], "error")
    /\ hasMethod(h[value.a], "unwrapOrNull")
    /\ hasMethod(h[value.a], "unwrapOr")
    /\ hasMethod(h[value.a], "unwrap")
    /\ hasMethod(h[value.a], "mapOk")
    /\ hasMethod(h[value.a], "mapErr")
    /\ hasMethod(h[value.a], "mapOkAndErr")
    /\ hasMethod(h[value.a], "onOk")
    /\ hasMethod(h[value.a], "onErr")

(***************************************************************************)
(* The state: the heap, and the last call made with its outcome.           *)
(***************************************************************************)
HeapLimit == Len(UserHeap) + MaxAlloc

Results(h) == {r \in Refs(h) : h[r.a].k = "Result"}

\* the values handed to ok: primitives, a caller's object, and Results
OkInputs(h) == {Undef, Num(42), Bool(FALSE), Ref(AddrErr1)} \cup Results(h)

\* the payloads handed to err: one of each shape of ResultValidErrors
ErrInputs(h) ==
    {Bool(TRUE), Ref(AddrErr1), Ref(AddrObjMsg), Ref(AddrObjCyclic), Ref(AddrArr)}

\* the defaults handed to unwrapOr
Defaults == {Null, Num(42), Ref(AddrErr1)}

\* the ids handed to errId
Ids == {Str("not-found")}

\* no call has been made, or the caller has taken the last one's outcome
NoCall ==
    [op |-> "none", recv |-> Undef, args |-> <<>>, kind |-> "return",
     val |-> Undef, calls |-> <<>>, mid |-> Undef]

Init ==
    /\ heap = UserHeap
    /\ last = NoCall
    /\ promises = <<>>

\* the caller makes a call and it completes: the heap is the one it left, last
\* is its record
Step(op, recv, args, out, mid) ==
    /\ last = NoCall
    /\ Len(out.heap) <= HeapLimit
    /\ heap' = out.heap
    /\ last' = [op |-> op, recv |-> recv, args |-> args, kind |-> out.kind,
                val |-> out.val, calls |-> out.calls, mid |-> mid]
    /\ UNCHANGED promises

\* ok(value)
Ok ==
    \E value \in OkInputs(heap) : Step("ok", Undef, <<value>>, ok(heap, value), Undef)

\* ok(): the parameter defaults to undefined (main.ts 177)
OkVoid == Step("ok", Undef, <<>>, ok(heap, Undef), Undef)

\* err(error)
Err ==
    \E error \in ErrInputs(heap) :
        Step("err", Undef, <<error>>, err(heap, error), Undef)

\* Result.errId(id)
ErrId == \E id \in Ids : Step("errId", Undef, <<id>>, errId(heap, id), Undef)

\* unknownToError(error)
UnknownToError ==
    \E error \in Values(heap) :
        Step("unknownToError", Undef, <<error>>, unknownToError(heap, error), Undef)

\* isResult(value)
IsResult ==
    \E value \in Values(heap) :
        Step("isResult", Undef, <<value>>, Return(heap, Bool(isResult(heap, value))), Undef)

\* getOkErr<A>() and getOkErr<B>(): two calls, with different type arguments
GetOkErr ==
    LET first == getOkErr(heap)
        second == getOkErr(first.heap)
    IN  Step("getOkErr", Undef, <<>>, second, first.val)

\* getOkErr().ok(value)
TypedOk ==
    \E value \in OkInputs(heap) :
        LET t == getOkErr(heap)
        IN  Step("typed.ok", t.val, <<value>>,
                 CallFn(t.heap, TypedMember(t.heap, t.val, "ok"), <<value>>), Undef)

\* getOkErr().err(error)
TypedErr ==
    \E error \in ErrInputs(heap) :
        LET t == getOkErr(heap)
        IN  Step("typed.err", t.val, <<error>>,
                 CallFn(t.heap, TypedMember(t.heap, t.val, "err"), <<error>>), Undef)

\* getOkErr()._type
TypeAccess ==
    LET t == getOkErr(heap)
    IN  Step("_type", t.val, <<>>, typedResult_type(t.heap), Undef)

\* r.member(...args)
Call(r, member, args) == Step(member, r, args, Invoke(heap, r, member, args), Undef)

Unwrap == \E r \in Results(heap) : Call(r, "unwrap", <<>>)

UnwrapOrNull == \E r \in Results(heap) : Call(r, "unwrapOrNull", <<>>)

UnwrapOr == \E r \in Results(heap), d \in Defaults : Call(r, "unwrapOr", <<d>>)

MapOk == \E r \in Results(heap), f \in OkFns : Call(r, "mapOk", <<Fn(f)>>)

MapErr == \E r \in Results(heap), f \in ErrFns : Call(r, "mapErr", <<Fn(f)>>)

MapOkAndErr ==
    \E r \in Results(heap), f \in OkFns, g \in ErrFns :
        Call(r, "mapOkAndErr", <<Fn(f), Fn(g)>>)

MapToValue ==
    \E r \in Results(heap), f \in OkFns, g \in ErrFns :
        Call(r, "mapToValue", <<Fn(f), Fn(g)>>)

OnOk == \E r \in Results(heap), f \in HookFns : Call(r, "onOk", <<Fn(f)>>)

OnErr == \E r \in Results(heap), f \in HookFns : Call(r, "onErr", <<Fn(f)>>)

IfOk == \E r \in Results(heap), f \in HookFns : Call(r, "ifOk", <<Fn(f)>>)

IfErr == \E r \in Results(heap), f \in HookFns : Call(r, "ifErr", <<Fn(f)>>)

ErrorResult == \E r \in Results(heap) : Call(r, "errorResult", <<>>)

\* r.onOk(f).onErr(g) and r.onErr(g).onOk(f): the second call is made on what
\* the first returned (tsResult.test.ts 671-713)
HookChain ==
    \E r \in Results(heap), f \in HookFns, okFirst \in BOOLEAN :
      \E g \in HookFns \ {f} :
        LET first == IF okFirst THEN Invoke(heap, r, "onOk", <<Fn(f)>>)
                     ELSE Invoke(heap, r, "onErr", <<Fn(g)>>)
            second == IF okFirst THEN Invoke(first.heap, first.val, "onErr", <<Fn(g)>>)
                      ELSE Invoke(first.heap, first.val, "onOk", <<Fn(f)>>)
        IN  Step(IF okFirst THEN "onOk.onErr" ELSE "onErr.onOk", r, <<Fn(f), Fn(g)>>,
                 WithCalls(first.calls, second), first.val)

\* the hooks
Hooks == {"onOk", "onErr", "ifOk", "ifErr"}

\* r.h1(f).h2(g) for two hooks: the second is called on what the first returned
HookSequence ==
    \E r \in Results(heap), h1 \in Hooks, h2 \in Hooks, f \in HookFns :
      \E g \in HookFns \ {f} :
        LET first == Invoke(heap, r, h1, <<Fn(f)>>)
            second == Invoke(first.heap, first.val, h2, <<Fn(g)>>)
        IN  Step("hooks", r, <<Str(h1), Fn(f), Str(h2), Fn(g)>>,
                 WithCalls(first.calls, second), first.val)

\* r.mapOk(f).mapOk(g): the Result the first call builds is an intermediate one
MapOkChain ==
    \E r \in Results(heap), f \in OkFns, g \in OkFns :
        LET first == Invoke(heap, r, "mapOk", <<Fn(f)>>)
            second == Invoke(first.heap, first.val, "mapOk", <<Fn(g)>>)
            out == WithCalls(first.calls, second)
        IN  /\ last = NoCall
            /\ Len(out.heap) <= HeapLimit + MaxChain
            /\ heap' = out.heap
            /\ last' = [op |-> "mapOk.mapOk", recv |-> r, args |-> <<Fn(f), Fn(g)>>,
                        kind |-> out.kind, val |-> out.val, calls |-> out.calls,
                        mid |-> first.val]
            /\ UNCHANGED promises

(***************************************************************************)
(* Deferred values.  A promise is pending, fulfilled or rejected; one the  *)
(* library derives from another settles by a reaction that runs once its   *)
(* source has settled and the caller's code has run to completion.         *)
(***************************************************************************)
UserPromise ==
    [st |-> "pending", val |-> Undef, kind |-> "user", src |-> 0, fns |-> <<>>]

DerivedPromise(kind, src, fns) ==
    [st |-> "pending", val |-> Undef, kind |-> kind, src |-> src, fns |-> fns]

\* the outcome of a call that may create promises
POut(out, ps) ==
    [heap |-> out.heap, promises |-> ps, kind |-> out.kind, val |-> out.val,
     calls |-> out.calls]

\* a promise that waits for promise src and then settles as `kind` says:
\* src.then(...).catch(...), or an async function suspended at await src
Await(h, ps, src, kind, fns) ==
    POut(Return(h, PRef(Len(ps) + 1)), Append(ps, DerivedPromise(kind, src, fns)))

\* the mutant: the caught value is wrapped even when it is an Error already
resultify_catch_alwaysWraps(h, errorNormalizer, error) ==
    IF errorNormalizer # Undef
    THEN WithCalls(<<Invocation(errorNormalizer.f, error)>>,
                   err(h, Apply(errorNormalizer.f, error)))
    ELSE LET n == unknownToError_alwaysWraps(h, error)
         IN  err(n.heap, n.val)

\* the mutant: the normalizer's output goes through unknownToError as well
resultify_catch_normalizesTwice(h, errorNormalizer, error) ==
    LET n == unknownToError(h, IF errorNormalizer # Undef
                               THEN Apply(errorNormalizer.f, error) ELSE error)
    IN  WithCalls(IF errorNormalizer # Undef
                  THEN <<Invocation(errorNormalizer.f, error)>> ELSE <<>>,
                  err(n.heap, n.val))

\* resultify's error handler (main.ts 363-369, 378-384, 389-393)
resultify_catch(h, errorNormalizer, error) ==
    IF errorNormalizer # Undef
    THEN WithCalls(<<Invocation(errorNormalizer.f, error)>>,
                   err(h, Apply(errorNormalizer.f, error)))
    ELSE LET n == unknownToError(h, error)
         IN  err(n.heap, n.val)

\* the mutant: fn is called outside the try block
resultify_noTry(h, ps, fn, errorNormalizer) ==
    IF fn.t # "function"
    THEN Await(h, ps, fn.p, "resultify", <<errorNormalizer>>)
    ELSE WithCalls(<<Invocation(fn.f, Undef)>>,
             IF fn.f = "throws"
             THEN POut(Throw(h, fn.v), ps)
             ELSE IF fn.v.t = "promise"
             THEN Await(h, ps, fn.v.p, "resultify", <<errorNormalizer>>)
             ELSE POut(ok(h, fn.v), ps))

\* resultify (main.ts 354-395); fn is a promise, or a function that returns a
\* value, returns a promise or throws
resultify(h, ps, fn, errorNormalizer) ==
    IF fn.t # "function"
    THEN Await(h, ps, fn.p, "resultify", <<errorNormalizer>>)
    ELSE WithCalls(<<Invocation(fn.f, Undef)>>,
             IF fn.f = "throws"
             THEN POut(resultify_catch(h, errorNormalizer, fn.v), ps)
             ELSE IF fn.v.t = "promise"
             THEN Await(h, ps, fn.v.p, "resultify", <<errorNormalizer>>)
             ELSE POut(ok(h, fn.v), ps))

\* asyncMap(...).err (main.ts 277-282), after the await
asyncMap_err(h, result, mapFn) ==
    IF h[result.a].ok
    THEN ok(h, h[result.a].value)
    ELSE WithCalls(<<Invocation(mapFn, h[result.a].error)>>,
                   err(h, Apply(mapFn, h[result.a].error)))

\* the mutant: the Ok is rebuilt without calling mapFn
asyncMap_ok_noMap(h, result, mapFn) ==
    IF h[result.a].ok THEN ok(h, h[result.a].value) ELSE err(h, h[result.a].error)

\* asyncMap(...).ok (main.ts 283-288), after the await
asyncMap_ok(h, result, mapFn) ==
    IF h[result.a].ok
    THEN WithCalls(<<Invocation(mapFn, h[result.a].value)>>,
                   ok(h, Apply(mapFn, h[result.a].value)))
    ELSE err(h, h[result.a].error)

\* asyncMap(...).okAndErr (main.ts 289-298), after the await
asyncMap_okAndErr(h, result, mapFn, mapErrFn) ==
    IF h[result.a].ok
    THEN WithCalls(<<Invocation(mapFn, h[result.a].value)>>,
                   ok(h, Apply(mapFn, h[result.a].value)))
    ELSE WithCalls(<<Invocation(mapErrFn, h[result.a].error)>>,
                   err(h, Apply(mapErrFn, h[result.a].error)))

\* the mutant: the Err's error is returned, not thrown
asyncUnwrap_returnsError(h, unwrapped) ==
    IF h[unwrapped.a].ok THEN Return(h, h[unwrapped.a].value)
    ELSE Return(h, h[unwrapped.a].error)

\* asyncUnwrap (main.ts 250-264), after the await
asyncUnwrap(h, unwrapped) ==
    IF h[unwrapped.a].ok THEN Return(h, h[unwrapped.a].value)
    ELSE IF IsError(h, h[unwrapped.a].error) THEN Throw(h, h[unwrapped.a].error)
    ELSE LET n == unknownToError(h, h[unwrapped.a].error)
         IN  Throw(n.heap, n.val)

\* the mutant: the promise resultify returns lets the rejection through
Reaction_resultifyRejects(h, p, s) ==
    CASE s.st = "rejected" -> Throw(h, s.val)
      [] p.kind = "resultify" -> ok(h, s.val)
      [] p.kind = "asyncMap.err" -> asyncMap_err(h, s.val, p.fns[1].f)
      [] p.kind = "asyncMap.ok" -> asyncMap_ok(h, s.val, p.fns[1].f)
      [] p.kind = "asyncMap.okAndErr" ->
           asyncMap_okAndErr(h, s.val, p.fns[1].f, p.fns[2].f)
      [] p.kind = "asyncUnwrap" -> asyncUnwrap(h, s.val)

\* how promise p settles once its source s has: a returned value fulfils it, a
\* thrown one rejects it; the rejection of an awaited promise is thrown at the
\* await
Reaction(h, p, s) ==
    CASE p.kind = "resultify" ->
           IF s.st = "fulfilled" THEN ok(h, s.val)
           ELSE resultify_catch(h, p.fns[1], s.val)
      [] s.st = "rejected" -> Throw(h, s.val)
      [] p.kind = "asyncMap.err" -> asyncMap_err(h, s.val, p.fns[1].f)
      [] p.kind = "asyncMap.ok" -> asyncMap_ok(h, s.val, p.fns[1].f)
      [] p.kind = "asyncMap.okAndErr" ->
           asyncMap_okAndErr(h, s.val, p.fns[1].f, p.fns[2].f)
      [] p.kind = "asyncUnwrap" -> asyncUnwrap(h, s.val)

PromiseIds == 1..Len(promises)

\* what a caller's function returns or throws, and what its promise rejects with
Returned == {Num(42)}

Thrown == {Str("x"), Ref(AddrErr1)}

\* the kinds of promise that wait for a Promise<Result<T, E>>
ResultConsumers == {"asyncMap.err", "asyncMap.ok", "asyncMap.okAndErr", "asyncUnwrap"}

\* the promises that can be typed Promise<Result<T, E>>: the library's own, except
\* asyncUnwrap's, and the caller's unless fulfilled with something else
ResultPromiseIds ==
    {p \in PromiseIds :
        IF promises[p].kind = "user"
        THEN promises[p].st = "fulfilled" => promises[p].val \in Results(heap)
        ELSE promises[p].kind # "asyncUnwrap"}

\* what the caller's promise p may be fulfilled with: a Result when p has been
\* passed as a Promise<Result<T, E>>
FulfilValues(p) ==
    IF \E d \in PromiseIds : promises[d].src = p /\ promises[d].kind \in ResultConsumers
    THEN Results(heap)
    ELSE Returned \cup Results(heap)

\* the first argument of resultify
ResultifyInputs ==
    {PRef(p) : p \in PromiseIds}
        \cup {Thunk("returns", v) : v \in Returned \cup {PRef(p) : p \in PromiseIds}}
        \cup {Thunk("throws", v) : v \in Thrown}

\* the second argument of resultify: none, or (err) => [String(err)]
Normalizers == {Undef, Fn("toArr")}

\* a call that may create promises completes
AStep(op, recv, args, out) ==
    /\ last = NoCall
    /\ Len(out.heap) <= HeapLimit
    /\ Len(out.promises) <= MaxPromises
    /\ heap' = out.heap
    /\ promises' = out.promises
    /\ last' = [op |-> op, recv |-> recv, args |-> args, kind |-> out.kind,
                val |-> out.val, calls |-> out.calls, mid |-> Undef]

\* the caller starts an asynchronous computation
NewPromise ==
    /\ last = NoCall
    /\ Len(promises) < MaxPromises
    /\ promises' = Append(promises, UserPromise)
    /\ UNCHANGED <<heap, last>>

\* the caller's asynchronous computation completes
Fulfil ==
    \E p \in PromiseIds :
        /\ last = NoCall
        /\ promises[p].kind = "user" /\ promises[p].st = "pending"
        /\ \E v \in FulfilValues(p) :
               promises' = [promises EXCEPT ![p].st = "fulfilled", ![p].val = v]
        /\ UNCHANGED <<heap, last>>

\* the Results an async function of the caller returns, as divideAsync does
\* (tsResult.test.ts 29-37): ok(value), err(Error), and err of a plain object
AsyncOutcomes(h) ==
    {ok(h, Num(42)), err(h, Ref(AddrErr1)), err(h, Ref(AddrObjMsg))}

\* the caller's async function returns a Result it has just built: its promise
\* fulfils with it
AsyncReturn ==
    \E p \in PromiseIds :
        /\ last = NoCall
        /\ promises[p].kind = "user" /\ promises[p].st = "pending"
        /\ \E out \in AsyncOutcomes(heap) :
               /\ Len(out.heap) <= HeapLimit
               /\ heap' = out.heap
               /\ promises' = [promises EXCEPT ![p].st = "fulfilled", ![p].val = out.val]
        /\ UNCHANGED last

\* the caller's asynchronous computation fails
Reject ==
    \E p \in PromiseIds, x \in Thrown :
        /\ last = NoCall
        /\ promises[p].kind = "user" /\ promises[p].st = "pending"
        /\ promises' = [promises EXCEPT ![p].st = "rejected", ![p].val = x]
        /\ UNCHANGED <<heap, last>>

\* resultify(fn, errorNormalizer?)
Resultify ==
    \E fn \in ResultifyInputs, errorNormalizer \in Normalizers :
        AStep("resultify", Undef, <<fn, errorNormalizer>>,
              resultify(heap, promises, fn, errorNormalizer))

\* Result.asyncMap(p).err(mapFn)
AsyncMapErr ==
    \E p \in ResultPromiseIds, f \in ErrFns :
        AStep("asyncMap.err", PRef(p), <<Fn(f)>>,
              Await(heap, promises, p, "asyncMap.err", <<Fn(f)>>))

\* Result.asyncMap(p).ok(mapFn)
AsyncMapOk ==
    \E p \in ResultPromiseIds, f \in OkFns :
        AStep("asyncMap.ok", PRef(p), <<Fn(f)>>,
              Await(heap, promises, p, "asyncMap.ok", <<Fn(f)>>))

\* Result.asyncMap(p).okAndErr({ ok, err })
AsyncMapOkAndErr ==
    \E p \in ResultPromiseIds, f \in OkFns, g \in ErrFns :
        AStep("asyncMap.okAndErr", PRef(p), <<Fn(f), Fn(g)>>,
              Await(heap, promises, p, "asyncMap.okAndErr", <<Fn(f), Fn(g)>>))

\* Result.asyncUnwrap(p)
AsyncUnwrap ==
    \E p \in ResultPromiseIds :
        AStep("asyncUnwrap", PRef(p), <<>>,
              Await(heap, promises, p, "asyncUnwrap", <<>>))

\* Result.safeFn(fn, errorNormalizer?)
SafeFn ==
    \E fn \in {Thunk("returns", v) : v \in Returned} \cup {Thunk("throws", v) : v \in Thrown},
       errorNormalizer \in Normalizers :
        Step("safeFn", Undef, <<fn, errorNormalizer>>,
             StaticCall(heap, "safeFn", <<fn, errorNormalizer>>), Undef)

\* the mutant: a derived promise settles whether its source has or not
React_beforeSource ==
    \E p \in PromiseIds :
        /\ last = NoCall
        /\ promises[p].kind # "user" /\ promises[p].st = "pending"
        /\ LET out == Reaction(heap, promises[p], promises[promises[p].src])
           IN  /\ heap' = out.heap
               /\ promises' = [promises EXCEPT
                      ![p].st = IF out.kind = "return" THEN "fulfilled" ELSE "rejected",
                      ![p].val = out.val]
               /\ last' = [op |-> "settle", recv |-> PRef(p), args |-> <<>>,
                           kind |-> out.kind, val |-> out.val, calls |-> out.calls,
                           mid |-> Undef]

\* a derived promise whose source has settled settles in turn, once the caller's
\* code has run to completion; the objects its reaction allocates are bounded
\* by the number of promises
React ==
    \E p \in PromiseIds :
        /\ last = NoCall
        /\ promises[p].kind # "user" /\ promises[p].st = "pending"
        /\ promises[promises[p].src].st # "pending"
        /\ LET out == Reaction(heap, promises[p], promises[promises[p].src])
           IN  /\ heap' = out.heap
               /\ promises' = [promises EXCEPT
                      ![p].st = IF out.kind = "return" THEN "fulfilled" ELSE "rejected",
                      ![p].val = out.val]
               /\ last' = [op |-> "settle", recv |-> PRef(p), args |-> <<>>,
                           kind |-> out.kind, val |-> out.val, calls |-> out.calls,
                           mid |-> Undef]

\* the caller takes the outcome and goes on to its next statement
Resume ==
    /\ last # NoCall
    /\ last' = NoCall
    /\ UNCHANGED <<heap, promises>>

Next ==
    \/ Resume
    \/ Ok
    \/ OkVoid
    \/ Err
    \/ ErrId
    \/ Unwrap
    \/ UnwrapOrNull
    \/ UnwrapOr
    \/ MapOk
    \/ MapErr
    \/ MapOkAndErr
    \/ MapToValue
    \/ OnOk
    \/ OnErr
    \/ IfOk
    \/ IfErr
    \/ ErrorResult
    \/ HookChain

Spec == Init /\ [][Next]_vars

(***************************************************************************)
(* The constructors and transformers together with the asynchronous        *)
(* adapters: every operation that yields a Result.                         *)
(***************************************************************************)
NextAsync ==
    \/ Resume
    \/ Ok
    \/ OkVoid
    \/ Err
    \/ ErrId
    \/ MapOk
    \/ MapErr
    \/ MapOkAndErr
    \/ OnOk
    \/ OnErr
    \/ IfOk
    \/ IfErr
    \/ ErrorResult
    \/ NewPromise
    \/ Fulfil
    \/ Reject
    \/ Resultify
    \/ AsyncMapErr
    \/ AsyncMapOk
    \/ AsyncMapOkAndErr
    \/ AsyncUnwrap
    \/ React

SpecAsync == Init /\ [][NextAsync]_vars

(***************************************************************************)
(* The normaliser on its own: unknownToError applied to the caller's       *)
(* values and to the errors it has built itself.                           *)
(***************************************************************************)
NextNormalize ==
    \/ Resume
    \/ UnknownToError

SpecNormalize == Init /\ [][NextNormalize]_vars

(***************************************************************************)
(* The type guard applied to the caller's values and to the Results the    *)
(* constructors build.                                                     *)
(***************************************************************************)
NextIsResult ==
    \/ Resume
    \/ Ok
    \/ OkVoid
    \/ Err
    \/ ErrId
    \/ IsResult

SpecIsResult == Init /\ [][NextIsResult]_vars

(***************************************************************************)
(* resultify on its own, with the caller's functions and promises.         *)
(***************************************************************************)
NextResultify ==
    \/ Resume
    \/ NewPromise
    \/ Fulfil
    \/ Reject
    \/ Resultify
    \/ SafeFn
    \/ React

SpecResultify == Init /\ [][NextResultify]_vars

\* resultify on a deferred value: a promise, or a function that returns one
ResultifyDeferred ==
    \E p \in PromiseIds, errorNormalizer \in Normalizers :
        \E fn \in {PRef(p), Thunk("returns", PRef(p))} :
            AStep("resultify", Undef, <<fn, errorNormalizer>>,
                  resultify(heap, promises, fn, errorNormalizer))

NextSettle ==
    \/ Resume
    \/ NewPromise
    \/ Fulfil
    \/ AsyncReturn
    \/ Reject
    \/ ResultifyDeferred
    \/ React

\* deferred resultify with the engine's scheduling: the caller's code runs to
\* completion, and a reaction that is ready runs once the call stack is empty.
\* Nothing makes the caller's own promises settle.
SpecSettle ==
    /\ Init
    /\ [][NextSettle]_vars
    /\ WF_vars(Resume)
    /\ SF_vars(React)

(***************************************************************************)
(* asyncUnwrap and asyncMap on the promises of async functions that return *)
(* Results.                                                                *)
(***************************************************************************)
NextAwait ==
    \/ Resume
    \/ NewPromise
    \/ AsyncReturn
    \/ Reject
    \/ AsyncMapErr
    \/ AsyncMapOk
    \/ AsyncMapOkAndErr
    \/ AsyncUnwrap
    \/ React

SpecAwait == Init /\ [][NextAwait]_vars

(***************************************************************************)
(* The typed helper: getOkErr, its constructors and its _type member.      *)
(***************************************************************************)
NextTyped ==
    \/ Resume
    \/ GetOkErr
    \/ TypedOk
    \/ TypedErr
    \/ TypeAccess

SpecTyped == Init /\ [][NextTyped]_vars

(***************************************************************************)
(* Chains of two method calls on the Results the constructors build.       *)
(***************************************************************************)
NextChain ==
    \/ Resume
    \/ Ok
    \/ OkVoid
    \/ Err
    \/ HookSequence
    \/ MapOkChain

SpecChain == Init /\ [][NextChain]_vars

(***************************************************************************)
(* Properties.                                                             *)
(***************************************************************************)
\* the record ok(value) builds, and the one err(error) builds
OkRecord(value) == ok(<<>>, value).heap[1]

ErrRecord(error) == err(<<>>, error).heap[1]

\* the last call returned a Result allocated by that very call
ReturnedNew == last.kind = "return" /\ last.val = Ref(Len(heap)) /\ last.val # last.recv

\* C1: for every v, and for ok() where v is undefined, ok(v) is a record with
\* ok = true, error = false and value = v, and its unwrap(), unwrapOrNull() and
\* unwrapOr(d) all return v.
C1_OkContract ==
    last.op = "ok" =>
        LET v == IF last.args = <<>> THEN Undef ELSE last.args[1]
            r == heap[last.val.a]
        IN  /\ ReturnedNew
            /\ r.k = "Result" /\ r.ok = TRUE /\ r.error = Bool(FALSE) /\ r.value = v
            /\ Invoke(heap, last.val, "unwrap", <<>>) = Return(heap, v)
            /\ Invoke(heap, last.val, "unwrapOrNull", <<>>) = Return(heap, v)
            /\ \A d \in Defaults :
                   Invoke(heap, last.val, "unwrapOr", <<d>>) = Return(heap, v)

C1_Witness ==
    /\ last.op = "ok" /\ last.args = <<>>
    /\ heap[last.val.a].ok /\ heap[last.val.a].value = Undef

\* C2: for every payload e of the error constraint, err(e) is a record with
\* ok = false and error = e (the same reference), its unwrapOrNull() returns null
\* and its unwrapOr(d) returns d.
C2_ErrContract ==
    last.op = "err" =>
        LET e == last.args[1]
            r == heap[last.val.a]
        IN  /\ e \in ResultValidErrors(heap)
            /\ ReturnedNew
            /\ r.k = "Result" /\ r.ok = FALSE /\ r.error = e
            /\ Invoke(heap, last.val, "unwrapOrNull", <<>>) = Return(heap, Null)
            /\ \A d \in Defaults :
                   Invoke(heap, last.val, "unwrapOr", <<d>>) = Return(heap, d)

C2_Witness ==
    /\ last.op = "err" /\ last.args = <<Ref(AddrObjMsg)>>
    /\ heap[last.val.a].error = Ref(AddrObjMsg)

\* C3: unwrap() on an Err always throws: the payload itself when it is an Error
\* instance, otherwise unknownToError(payload), a new Error whose cause is the
\* payload.
C3_UnwrapErrThrows ==
    (last.op = "unwrap" /\ ~heap[last.recv.a].ok) =>
        LET e == heap[last.recv.a].error
            before == SubSeq(heap, 1, Len(heap) - 1)
        IN  /\ last.kind = "throw"
            /\ IsError(heap, last.val)
            /\ IF IsError(heap, e) THEN last.val = e
               ELSE /\ last.val = Ref(Len(heap))
                    /\ unknownToError(before, e) = Return(heap, last.val)
                    /\ heap[last.val.a].hasCause /\ heap[last.val.a].cause = e

C3_Witness ==
    /\ last.op = "unwrap" /\ last.kind = "throw"
    /\ heap[last.recv.a].error = Ref(AddrObjMsg)
    /\ heap[last.val.a].message = "m" /\ heap[last.val.a].cause = Ref(AddrObjMsg)

\* C4: every Result reachable by any sequence of ok, err, errId, mapOk, mapErr,
\* mapOkAndErr, onOk, onErr, errorResult, resultify and asyncMap calls has
\* ok = true exactly when it has the Ok shape (error = false and a value field)
\* and ok = false exactly when it has the Err shape (no value field, and error
\* is its payload, never false).
C4_BranchShape ==
    \A r \in Results(heap) :
        LET o == heap[r.a]
            okShape == o.error = Bool(FALSE) /\ "value" \in DOMAIN o
            errShape == o.error # Bool(FALSE) /\ "value" \notin DOMAIN o
        IN  /\ (o.ok = TRUE) <=> okShape
            /\ (o.ok = FALSE) <=> errShape

C4_Witness ==
    /\ last.op = "settle" /\ last.kind = "return"
    /\ promises[last.recv.p].kind = "asyncMap.ok"
    /\ last.val # promises[promises[last.recv.p].src].val
    /\ ~heap[last.val.a].ok /\ heap[last.val.a].error = Ref(AddrObjMsg)

\* C5: mapOk and mapErr transform only their own branch: on an Ok mapOk(fn)
\* returns ok(fn(value)) and mapErr(fn) returns the receiver without calling fn;
\* on an Err mapErr(fn) returns err(fn(error)) and mapOk(fn) returns the receiver
\* without calling fn.
C5_MapOwnBranch ==
    /\ last.op = "mapOk" =>
           LET r == heap[last.recv.a]
               f == last.args[1].f
           IN  IF r.ok
               THEN /\ ReturnedNew
                    /\ heap[last.val.a] = OkRecord(Apply(f, r.value))
                    /\ last.calls = <<Invocation(f, r.value)>>
               ELSE last.kind = "return" /\ last.val = last.recv /\ last.calls = <<>>
    /\ last.op = "mapErr" =>
           LET r == heap[last.recv.a]
               f == last.args[1].f
           IN  IF r.ok
               THEN last.kind = "return" /\ last.val = last.recv /\ last.calls = <<>>
               ELSE /\ ReturnedNew
                    /\ heap[last.val.a] = ErrRecord(Apply(f, r.error))
                    /\ last.calls = <<Invocation(f, r.error)>>

C5_Witness ==
    /\ last.op = "mapOk" /\ last.args = <<Fn("typeOf")>>
    /\ heap[last.recv.a].ok /\ heap[last.recv.a].value = Num(42)
    /\ heap[last.val.a].value = Str("number")

\* C6: mapOkAndErr({ok, err}) returns a Result of the receiver's branch:
\* ok(okFn(value)) on an Ok, err(errFn(error)) on an Err; exactly one of the two
\* functions is called, once.
C6_MapOkAndErr ==
    last.op = "mapOkAndErr" =>
        LET r == heap[last.recv.a]
            okFn == last.args[1].f
            errFn == last.args[2].f
        IN  /\ ReturnedNew
            /\ heap[last.val.a].ok = r.ok
            /\ IF r.ok
               THEN /\ heap[last.val.a] = OkRecord(Apply(okFn, r.value))
                    /\ last.calls = <<Invocation(okFn, r.value)>>
               ELSE /\ heap[last.val.a] = ErrRecord(Apply(errFn, r.error))
                    /\ last.calls = <<Invocation(errFn, r.error)>>

C6_Witness ==
    /\ last.op = "mapOkAndErr" /\ last.args = <<Fn("typeOf"), Fn("toArr")>>
    /\ ~heap[last.recv.a].ok /\ heap[last.recv.a].error = Ref(AddrErr1)
    /\ ~heap[last.val.a].ok /\ heap[last.val.a].error = Ref(AddrArr)

\* C7: every Result exposes mapToValue({ok, err}), which returns the plain value
\* okFn(value) on an Ok and errFn(error) on an Err.
C7_MapToValue ==
    last.op = "mapToValue" =>
        LET r == heap[last.recv.a]
        IN  /\ last.kind = "return"
            /\ last.val = IF r.ok THEN Apply(last.args[1].f, r.value)
                          ELSE Apply(last.args[2].f, r.error)

\* C8: r.onOk(f).onErr(g) and r.onErr(g).onOk(f) invoke exactly one of the two
\* callbacks, once: f with the value when r is Ok, g with the error when r is
\* Err; each call returns r itself.
C8_HookChain ==
    last.op \in {"onOk.onErr", "onErr.onOk"} =>
        LET r == heap[last.recv.a]
            f == last.args[1].f
            g == last.args[2].f
        IN  /\ last.kind = "return"
            /\ last.mid = last.recv /\ last.val = last.recv
            /\ last.calls = IF r.ok THEN <<Invocation(f, r.value)>>
                            ELSE <<Invocation(g, r.error)>>

C8_Witness ==
    /\ last.op = "onErr.onOk" /\ last.args = <<Fn("f"), Fn("g")>>
    /\ ~heap[last.recv.a].ok
    /\ last.calls = <<Invocation("g", heap[last.recv.a].error)>>

\* C9: unknownToError returns an Error instance for every input and never
\* throws; it returns the input itself exactly when the input is an Error
\* instance already.
C9_NormalizeTotal ==
    last.op = "unknownToError" =>
        /\ last.kind = "return"
        /\ IsError(heap, last.val)
        /\ (last.val = last.args[1]) <=> IsError(heap, last.args[1])

C9_Witness ==
    /\ last.op = "unknownToError" /\ last.args = <<Ref(AddrObjCyclic)>>
    /\ last.val = Ref(Len(heap)) /\ heap[last.val.a].message = "unknown"

\* the input of the last call is an object that is neither an Error nor an array
ObjectInput == isObject(heap, last.args[1]) /\ ~IsError(heap, last.args[1])

\* C10 as stated: for an object input the message is the input's message field
\* whenever that field is a string, otherwise safeStringify(input) or 'unknown';
\* the cause is the input.
C10_AnyStringMessage ==
    (last.op = "unknownToError" /\ ObjectInput) =>
        LET input == last.args[1]
            o == heap[input.a]
            e == heap[last.val.a]
        IN  /\ last.val = Ref(Len(heap)) /\ last.val # input
            /\ e.message =
                   IF HasMessage(o) /\ GetMessage(o).t = "string" THEN GetMessage(o).s
                   ELSE Coalesce(safeJsonStringify(heap, input), Str("unknown")).s
            /\ e.hasCause /\ e.cause = input

\* C10, amended: the message field is used whenever it is a non-empty string; an
\* empty one is treated like a missing one.
C10_NonEmptyStringMessage ==
    (last.op = "unknownToError" /\ ObjectInput) =>
        LET input == last.args[1]
            o == heap[input.a]
            e == heap[last.val.a]
        IN  /\ last.val = Ref(Len(heap)) /\ last.val # input
            /\ e.message =
                   IF HasMessage(o) /\ GetMessage(o).t = "string" /\ GetMessage(o).s # ""
                   THEN GetMessage(o).s
                   ELSE Coalesce(safeJsonStringify(heap, input), Str("unknown")).s
            /\ e.hasCause /\ e.cause = input

C10_Witness ==
    /\ last.op = "unknownToError" /\ last.args = <<Ref(AddrObjEmptyMsg)>>
    /\ heap[last.val.a].message = "{\"message\":\"\"}"
    /\ heap[last.val.a].cause = Ref(AddrObjEmptyMsg)

\* the JSON text of v where it has one
JsonTexts ==
    [n \in {Null, Num(42), Bool(TRUE), Bool(FALSE), Ref(AddrArr)} |->
        CASE n = Null -> "null"
          [] n = Num(42) -> "42"
          [] n = Bool(TRUE) -> "true"
          [] n = Bool(FALSE) -> "false"
          [] n = Ref(AddrArr) -> "[\"a\"]"]

\* C11: for a non-object input, a string s yields a new error whose message is
\* exactly s; any other value (number, boolean, sequence, null or absence) yields
\* a new error whose message is safeStringify(value), or 'unknown' when there is
\* none, and whose cause is the original value.
C11_NonObjectInput ==
    (last.op = "unknownToError" /\ ~isObject(heap, last.args[1])) =>
        LET input == last.args[1]
            e == heap[last.val.a]
        IN  /\ last.kind = "return"
            /\ last.val = Ref(Len(heap)) /\ last.val # input
            /\ e.k = "Error"
            /\ IF input.t = "string" THEN e.message = input.s
               ELSE /\ e.message =
                         Coalesce(safeJsonStringify(heap, input), Str("unknown")).s
                    /\ input \in DOMAIN JsonTexts => e.message = JsonTexts[input]
                    /\ input = Undef => e.message = "unknown"
                    /\ e.hasCause /\ e.cause = input

C11_Witness ==
    /\ last.op = "unknownToError" /\ last.args = <<Ref(AddrArr)>>
    /\ heap[last.val.a].message = "[\"a\"]" /\ heap[last.val.a].cause = Ref(AddrArr)

\* C12: for every input that is not an Error instance already, the Error that
\* unknownToError returns carries the input as its cause.
C12_CauseKept ==
    (last.op = "unknownToError" /\ ~IsError(heap, last.args[1])) =>
        /\ heap[last.val.a].hasCause
        /\ heap[last.val.a].cause = last.args[1]

\* the heap as it was before its last n objects were allocated
HeapBefore(n) == SubSeq(heap, 1, Len(heap) - n)

\* v is the Error unknownToError gives for x, where the call left the heap as it
\* is without its last `after` objects
IsNormalized(v, x, after) ==
    IF IsError(heap, x) THEN v = x
    ELSE /\ v = Ref(Len(heap) - after)
         /\ unknownToError(HeapBefore(after + 1), x) = Return(HeapBefore(after), v)

\* the last call was resultify(fn) with a function that returns no promise
SyncResultify ==
    /\ last.op = "resultify"
    /\ last.args[1].t = "function"
    /\ last.args[1].v.t # "promise"

\* C13: resultify(fn), for fn that returns no deferred value, invokes fn exactly
\* once and returns a Result, not a deferred value: ok(r) when fn returns r and,
\* with no normalizer, err(unknownToError(x)) when fn throws x, so that a thrown
\* Error instance is the Err's error itself.
C13_SyncResultify ==
    SyncResultify =>
        LET fn == last.args[1]
            errorNormalizer == last.args[2]
        IN  /\ last.kind = "return"
            /\ last.val \in Results(heap) /\ last.val = Ref(Len(heap))
            /\ Len(last.calls) >= 1 /\ last.calls[1] = Invocation(fn.f, Undef)
            /\ \A i \in 2..Len(last.calls) : last.calls[i] # Invocation(fn.f, Undef)
            /\ fn.f = "returns" =>
                   heap[last.val.a] = OkRecord(fn.v) /\ Len(last.calls) = 1
            /\ (fn.f = "throws" /\ errorNormalizer = Undef) =>
                   /\ ~heap[last.val.a].ok /\ Len(last.calls) = 1
                   /\ heap[last.val.a] = ErrRecord(heap[last.val.a].error)
                   /\ IsNormalized(heap[last.val.a].error, fn.v, 1)
                   /\ IsError(heap, fn.v) => heap[last.val.a].error = fn.v

C13_Witness ==
    /\ last.op = "resultify"
    /\ last.args = <<Thunk("throws", Ref(AddrErr1)), Undef>>
    /\ last.val \in Results(heap)
    /\ heap[last.val.a].error = Ref(AddrErr1)

\* the last call was resultify on a promise, or on a function that returns one;
\* ResultifySource is that promise
DeferredResultify ==
    /\ last.op = "resultify"
    /\ last.args[1].t = "function" => last.args[1].f = "returns" /\ last.args[1].v.t = "promise"

ResultifySource ==
    IF last.args[1].t = "function" THEN last.args[1].v.p ELSE last.args[1].p

\* the promise that settled last is one resultify returned
ResultifySettled == last.op = "settle" /\ promises[last.recv.p].kind = "resultify"

\* C14: resultify(p) and resultify(() => p) return the same deferred Result: it
\* fulfils with ok(v) when p fulfils with v and, with no normalizer, fulfils
\* with err(unknownToError(x)) when p rejects with x.
C14_DeferredResultify ==
    /\ DeferredResultify =>
           /\ last.kind = "return"
           /\ last.val = PRef(Len(promises))
           /\ promises[last.val.p] =
                  DerivedPromise("resultify", ResultifySource, <<last.args[2]>>)
           /\ last.calls = IF last.args[1].t = "function"
                           THEN <<Invocation("returns", Undef)>> ELSE <<>>
    /\ ResultifySettled =>
           LET p == promises[last.recv.p]
               src == promises[p.src]
           IN  /\ last.kind = "return"
               /\ p.st = "fulfilled" /\ p.val = last.val
               /\ last.val = Ref(Len(heap))
               /\ src.st = "fulfilled" =>
                      heap[last.val.a] = OkRecord(src.val) /\ last.calls = <<>>
               /\ (src.st = "rejected" /\ p.fns[1] = Undef) =>
                      /\ heap[last.val.a] = ErrRecord(heap[last.val.a].error)
                      /\ IsNormalized(heap[last.val.a].error, src.val, 1)
                      /\ last.calls = <<>>

C14_Witness ==
    /\ ResultifySettled
    /\ promises[promises[last.recv.p].src].st = "rejected"
    /\ promises[promises[last.recv.p].src].val = Str("x")
    /\ promises[last.recv.p].fns = <<Undef>>
    /\ ~heap[last.val.a].ok
    /\ heap[heap[last.val.a].error.a] = ErrorObj("x", FALSE, Undef)

\* C15: with an errorNormalizer, when fn throws x, when the promise fn returns
\* rejects with x and when a raw promise rejects with x, the Err's error is
\* exactly errorNormalizer(x), unknownToError is not applied, and the
\* normalizer is not called when the call succeeds.
C15_Normalizer ==
    /\ (SyncResultify /\ last.args[2] # Undef) =>
           LET fn == last.args[1]
               f == last.args[2].f
           IN  IF fn.f = "throws"
               THEN /\ heap[last.val.a] = ErrRecord(Apply(f, fn.v))
                    /\ last.calls = <<Invocation(fn.f, Undef), Invocation(f, fn.v)>>
               ELSE /\ heap[last.val.a].ok
                    /\ last.calls = <<Invocation(fn.f, Undef)>>
    /\ (ResultifySettled /\ promises[last.recv.p].fns[1] # Undef) =>
           LET p == promises[last.recv.p]
               src == promises[p.src]
               f == p.fns[1].f
           IN  IF src.st = "rejected"
               THEN /\ last.kind = "return"
                    /\ heap[last.val.a] = ErrRecord(Apply(f, src.val))
                    /\ last.calls = <<Invocation(f, src.val)>>
               ELSE /\ heap[last.val.a].ok
                    /\ last.calls = <<>>

C15_Witness ==
    /\ ResultifySettled
    /\ promises[promises[last.recv.p].src].st = "rejected"
    /\ promises[promises[last.recv.p].src].val = Str("x")
    /\ promises[last.recv.p].fns = <<Fn("toArr")>>
    /\ last.calls = <<Invocation("toArr", Str("x"))>>
    /\ heap[last.val.a].error = Ref(AddrArr)

\* C16: Result.safeFn(fn, errorNormalizer?) is available and returns a function
\* that forwards its arguments to fn and gives ok(result), err(normalised
\* thrown value) or a deferred Result.
C16_SafeFnAvailable ==
    last.op = "safeFn" => last.kind = "return" /\ last.val.t = "function"

\* C17: isResult(value) is true exactly when value is a non-null object with a
\* boolean ok field, an error field and callable unwrapOrNull, unwrapOr, unwrap,
\* mapOk, mapErr, mapOkAndErr, onOk and onErr; mapToValue, ifOk, ifErr and
\* errorResult are not required; { ok: true, value: 1 } is rejected.
C17_IsResult ==
    last.op = "isResult" =>
        LET v == last.args[1]
            expected ==
                /\ v.t = "object"
                /\ HasProp(heap[v.a], "ok") /\ GetProp(heap[v.a], "ok").t = "boolean"
                /\ HasProp(heap[v.a], "error")
                /\ \A m \in {DuckKeys[i] : i \in 1..Len(DuckKeys)} :
                       HasProp(heap[v.a], m) /\ GetProp(heap[v.a], m).t = "function"
        IN  /\ last.kind = "return"
            /\ last.val = Bool(expected)
            /\ v \in Results(heap) \cup {Ref(AddrDuck)} => last.val = Bool(TRUE)
            /\ v \in Prims \cup {Ref(AddrTagged), Ref(AddrTaggedErr), Ref(AddrErr1),
                                Ref(AddrArr), Ref(AddrDuckNoError),
                                Ref(AddrDuckOkString), Ref(AddrDuckOnErrNumber)}
                   => last.val = Bool(FALSE)

C17_Witness ==
    /\ last.op = "isResult" /\ last.args = <<Ref(AddrTagged)>>
    /\ last.val = Bool(FALSE)
    /\ \E r \in Results(heap) : ~heap[r.a].ok

\* C18: for every payload e, err(e).errorResult() returns a fresh Err, not the
\* receiver, whose ok is false and whose error is e itself.
C18_ErrorResult ==
    (last.op = "errorResult" /\ ~heap[last.recv.a].ok) =>
        /\ ReturnedNew
        /\ heap[last.val.a].ok = FALSE
        /\ heap[last.val.a].error = heap[last.recv.a].error
        /\ heap[last.val.a] = ErrRecord(heap[last.recv.a].error)
        /\ last.calls = <<>>

C18_Witness ==
    /\ last.op = "errorResult" /\ last.kind = "return"
    /\ heap[last.recv.a].error = Ref(AddrObjMsg)
    /\ last.val # last.recv
    /\ heap[last.val.a].error = Ref(AddrObjMsg)

\* the last call was a transform made on the branch it transforms
MatchingTransform ==
    \/ last.op = "mapOk" /\ heap[last.recv.a].ok
    \/ last.op = "mapErr" /\ ~heap[last.recv.a].ok
    \/ last.op = "mapOkAndErr"
    \/ last.op = "errorResult" /\ ~heap[last.recv.a].ok

\* every object of the heap is after the step what it was before
HeapKept == Len(heap') >= Len(heap) /\ \A a \in 1..Len(heap) : heap'[a] = heap[a]

\* C19: no Result method mutates its receiver: over any sequence of unwrapOrNull,
\* unwrapOr, unwrap, mapOk, mapErr, mapOkAndErr, onOk, onErr, ifOk, ifErr and
\* errorResult calls every Result keeps its ok, value and error, and a transform
\* on its matching branch returns a new instance distinct from the receiver.
C19_NoMutation ==
    /\ [][HeapKept]_vars
    /\ [](MatchingTransform => ReturnedNew)

C19_Witness ==
    /\ last.op = "mapErr" /\ last.args = <<Fn("toArr")>>
    /\ last.val # last.recv
    /\ heap[last.recv.a].error = Ref(AddrErr1)
    /\ heap[last.val.a].error = Ref(AddrArr)

\* C20: an Err's error is thrown only by unwrap(): with callbacks that do not
\* throw, unwrapOrNull, unwrapOr, mapOk, mapErr, mapOkAndErr, onOk, onErr, ifOk,
\* ifErr and errorResult never throw, and unwrap() throws only on an Err.
C20_ThrowOnlyAtUnwrap ==
    /\ last.op \in {"unwrapOrNull", "unwrapOr", "mapOk", "mapErr", "mapOkAndErr", "onOk",
                    "onErr", "ifOk", "ifErr", "onOk.onErr", "onErr.onOk"} =>
           last.kind = "return"
    /\ (last.op = "errorResult" /\ ~heap[last.recv.a].ok) => last.kind = "return"
    /\ (last.op = "unwrap" /\ last.kind = "throw") => ~heap[last.recv.a].ok

C20_Witness ==
    /\ last.op = "unwrapOrNull" /\ last.kind = "return" /\ last.val = Null
    /\ ~heap[last.recv.a].ok /\ heap[last.recv.a].error = Ref(AddrErr1)

\* the promise that settled last is of the given kind and waited for a promise
\* that fulfilled with a Result; Awaited is that Result
SettledOn(kinds) ==
    /\ last.op = "settle"
    /\ promises[last.recv.p].kind \in kinds
    /\ promises[promises[last.recv.p].src].st = "fulfilled"

Awaited == promises[promises[last.recv.p].src].val

\* C21: Result.asyncUnwrap(p) resolves to the value when p fulfils with an Ok and
\* rejects when p fulfils with an Err: with the error itself when it is an Error
\* instance, otherwise with unknownToError(error).
C21_AsyncUnwrap ==
    SettledOn({"asyncUnwrap"}) =>
        LET r == heap[Awaited.a]
            p == promises[last.recv.p]
        IN  /\ p.val = last.val
            /\ IF r.ok
               THEN last.kind = "return" /\ p.st = "fulfilled" /\ last.val = r.value
               ELSE /\ last.kind = "throw" /\ p.st = "rejected"
                    /\ IsError(heap, last.val)
                    /\ IsNormalized(last.val, r.error, 0)
                    /\ IsError(heap, r.error) => last.val = r.error

C21_Witness ==
    /\ SettledOn({"asyncUnwrap"})
    /\ heap[Awaited.a].error = Ref(AddrObjMsg)
    /\ promises[last.recv.p].st = "rejected"
    /\ heap[last.val.a] = ErrorObj("m", TRUE, Ref(AddrObjMsg))

\* two Results are of the same branch with the same value or error
SameResult(a, b) ==
    /\ a.ok = b.ok
    /\ a.error = b.error
    /\ a.ok => a.value = b.value

\* C22: for a deferred Result p that fulfils with r, asyncMap(p).ok(f), .err(g)
\* and .okAndErr({ok: f, err: g}) fulfil with Results of the same branch and the
\* same value or error as r.mapOk(f), r.mapErr(g) and r.mapOkAndErr({ok: f,
\* err: g}), and call each mapping function on its matching branch only.
C22_AsyncMapAsSync ==
    SettledOn({"asyncMap.err", "asyncMap.ok", "asyncMap.okAndErr"}) =>
        LET p == promises[last.recv.p]
            method == CASE p.kind = "asyncMap.err" -> "mapErr"
                        [] p.kind = "asyncMap.ok" -> "mapOk"
                        [] p.kind = "asyncMap.okAndErr" -> "mapOkAndErr"
            sync == Invoke(HeapBefore(1), Awaited, method, p.fns)
        IN  /\ last.kind = "return" /\ p.st = "fulfilled" /\ p.val = last.val
            /\ last.val \in Results(heap)
            /\ sync.kind = "return"
            /\ SameResult(heap[last.val.a], sync.heap[sync.val.a])
            /\ last.calls = sync.calls
            /\ \A i \in 1..Len(last.calls) :
                   last.calls[i].arg = IF heap[Awaited.a].ok THEN heap[Awaited.a].value
                                       ELSE heap[Awaited.a].error

C22_Witness ==
    /\ SettledOn({"asyncMap.ok"})
    /\ promises[last.recv.p].fns = <<Fn("typeOf")>>
    /\ heap[Awaited.a].ok /\ heap[Awaited.a].value = Num(42)
    /\ heap[last.val.a].ok /\ heap[last.val.a].value = Str("number")

\* C23: getOkErr performs no runtime specialization: every call returns the same
\* object, and that object's ok and err are the shared ok and err constructors.
C23_GetOkErrShared ==
    /\ last.op = "getOkErr" =>
           /\ last.kind = "return"
           /\ last.val = last.mid
           /\ TypedMember(heap, last.val, "ok") = Constructors.ok
           /\ TypedMember(heap, last.val, "err") = Constructors.err
    /\ last.op = "typed.ok" =>
           ReturnedNew /\ heap[last.val.a] = OkRecord(last.args[1])
    /\ last.op = "typed.err" =>
           ReturnedNew /\ heap[last.val.a] = ErrRecord(last.args[1])

C23_Witness ==
    /\ last.op = "getOkErr"
    /\ last.mid = TypedResultRef /\ last.val = TypedResultRef
    /\ \E r \in Results(heap) : heap[r.a] = ErrRecord(Ref(AddrErr1))

\* C24: evaluating the _type member of the object getOkErr returns throws on
\* every access and never yields a value.
C24_TypeThrows ==
    last.op = "_type" =>
        /\ last.kind = "throw"
        /\ IsError(heap, last.val)
        /\ heap[last.val.a].message = "usage as value is not allowed"

C24_Witness ==
    /\ last.op = "_type" /\ last.kind = "throw"
    /\ last.val = Ref(Len(UserHeap) + 2)
    /\ heap[Len(UserHeap) + 1] = heap[Len(UserHeap) + 2]

\* C25: for any Result r, r.mapOk(id) with the identity function is observably
\* equal to r: the same branch, and the same value or the same error.
C25_MapOkIdentity ==
    (last.op = "mapOk" /\ last.args = <<Fn("id")>>) =>
        /\ last.kind = "return"
        /\ last.val \in Results(heap)
        /\ SameResult(heap[last.val.a], heap[last.recv.a])

C25_Witness ==
    /\ last.op = "mapOk" /\ last.args = <<Fn("id")>>
    /\ heap[last.recv.a].ok /\ heap[last.recv.a].value = Ref(AddrErr1)
    /\ last.val # last.recv
    /\ heap[last.val.a].value = Ref(AddrErr1)

\* C26: for any Result r and functions f and g, r.mapOk(f).mapOk(g) is
\* observably equal to r.mapOk(x => g(f(x))), on both branches.
C26_MapOkComposes ==
    last.op = "mapOk.mapOk" =>
        LET r == heap[last.recv.a]
            f == last.args[1].f
            g == last.args[2].f
            before == HeapBefore(IF r.ok THEN 2 ELSE 0)
            once == Invoke(before, last.recv, "mapOk", <<Fn(Composed(g, f))>>)
        IN  /\ last.kind = "return" /\ once.kind = "return"
            /\ SameResult(heap[last.val.a], once.heap[once.val.a])
            /\ r.ok => heap[last.val.a].value = Apply(g, Apply(f, r.value))
            /\ ~r.ok => last.val = last.recv /\ once.val = last.recv

C26_Witness ==
    /\ last.op = "mapOk.mapOk" /\ last.args = <<Fn("typeOf"), Fn("typeOf")>>
    /\ heap[last.recv.a].ok /\ heap[last.recv.a].value = Num(42)
    /\ heap[last.mid.a].value = Str("number")
    /\ heap[last.val.a].value = Str("string")

\* hook h fires on a Result of branch isOk
Fires(h, isOk) == IF h \in {"onOk", "ifOk"} THEN isOk ELSE ~isOk

\* C27: within one method chain the callbacks of onOk/onErr and ifOk/ifErr that
\* fire do so inside the hook call, before it returns, so the sequence of
\* invocations is the order of the matching hook calls; none is deferred or
\* reordered.
C27_HooksInOrder ==
    last.op = "hooks" =>
        LET r == heap[last.recv.a]
            payload == IF r.ok THEN r.value ELSE r.error
            h1 == last.args[1].s
            h2 == last.args[3].s
        IN  /\ last.kind = "return"
            /\ last.mid = last.recv /\ last.val = last.recv
            /\ last.calls =
                   (IF Fires(h1, r.ok) THEN <<Invocation(last.args[2].f, payload)>>
                    ELSE <<>>)
                   \o (IF Fires(h2, r.ok) THEN <<Invocation(last.args[4].f, payload)>>
                       ELSE <<>>)

C27_Witness ==
    /\ last.op = "hooks"
    /\ last.args = <<Str("onOk"), Fn("g"), Str("ifOk"), Fn("f")>>
    /\ heap[last.recv.a].ok
    /\ last.calls = <<Invocation("g", Num(42)), Invocation("f", Num(42))>>

\* promise p is one resultify returned
IsResultifyPromise(p) == p \in PromiseIds /\ promises[p].kind = "resultify"

\* the promise that p waits for has settled
SourceSettled(p) == promises[promises[p].src].st # "pending"

\* C28: the deferred Result resultify returns for a deferred input settles if
\* and only if the underlying value settles: it is never settled before the
\* underlying value is, so it stays pending for as long as that one does, and
\* once the underlying value has settled it eventually fulfils with a Result.
C28_SettlesWithSource ==
    /\ [](\A p \in PromiseIds :
             (IsResultifyPromise(p) /\ promises[p].st # "pending") => SourceSettled(p))
    /\ \A p \in 1..MaxPromises :
           (IsResultifyPromise(p) /\ SourceSettled(p))
               ~> /\ IsResultifyPromise(p)
                  /\ promises[p].st = "fulfilled"
                  /\ promises[p].val \in Results(heap)

C28_Witness ==
    /\ last.op = "settle"
    /\ IsResultifyPromise(last.recv.p)
    /\ promises[last.recv.p].st = "fulfilled"
    /\ promises[promises[last.recv.p].src].st = "rejected"
    /\ last.val \in Results(heap) /\ ~heap[last.val.a].ok

\* C29: with no errorNormalizer, or one that does not throw, resultify lets no
\* failure escape as an exception: for a function argument it never throws, the
\* deferred Result it returns never rejects, and every failure of the wrapped
\* code is delivered as an Err.
C29_NoEscape ==
    /\ last.op = "resultify" => last.kind = "return"
    /\ (SyncResultify /\ last.args[1].f = "throws") =>
           last.val \in Results(heap) /\ ~heap[last.val.a].ok
    /\ \A p \in PromiseIds : IsResultifyPromise(p) => promises[p].st # "rejected"
    /\ ResultifySettled =>
           /\ last.kind = "return"
           /\ last.val \in Results(heap)
           /\ promises[promises[last.recv.p].src].st = "rejected" => ~heap[last.val.a].ok

C29_Witness ==
    /\ last.op = "resultify"
    /\ last.args = <<Thunk("throws", Str("x")), Fn("toArr")>>
    /\ last.kind = "return"
    /\ ~heap[last.val.a].ok /\ heap[last.val.a].error = Ref(AddrArr)

\* C30: every value produced by ok, err, errId, by mapOk, mapErr, mapOkAndErr,
\* onOk, onErr, ifOk, ifErr and errorResult on a Result, by resultify (after
\* awaiting, when deferred) and by the asyncMap methods satisfies isResult, over
\* every sequence of these operations.
C30_ClosedUnderIsResult ==
    /\ \A r \in Results(heap) : isResult(heap, r)
    /\ (/\ last.op \in {"ok", "err", "errId", "mapOk", "mapErr", "mapOkAndErr", "onOk",
                       "onErr", "ifOk", "ifErr", "errorResult"}
        /\ last.kind = "return") => last.val \in Results(heap)
    /\ (last.op = "resultify" /\ last.val.t # "promise") => last.val \in Results(heap)
    /\ (/\ last.op = "settle"
        /\ promises[last.recv.p].kind # "asyncUnwrap"
        /\ last.kind = "return") => last.val \in Results(heap)

C30_Witness ==
    /\ last.op = "ifOk" /\ last.kind = "return" /\ last.val = last.recv
    /\ isResult(heap, last.val)
    /\ \E p \in PromiseIds :
           /\ promises[p].kind = "asyncMap.err"
           /\ promises[p].st = "fulfilled" /\ promises[p].val = last.recv

====
